---- MODULE Spec2Model ----
(***************************************************************************)
(* Model of the flight-table core of src/ACI: process_pdf_folder with its   *)
(* per-file loop, assign_rotations and drop_all_dupe_keys                  *)
(* (src/ACI/file_mover.py), extract_duplicates_from_file                   *)
(* (src/ACI/Helpers/extract_duplicates_helper.py), and replace_prefix and  *)
(* get_delay_reason (src/ACI/Helpers/extract_text_from_pdf.py).            *)
(*                                                                         *)
(* Text values are sequences of one-character strings, so that strip(),    *)
(* casefold() and string ordering are computed and not assumed.  A missing *)
(* value (Python None, pandas NaN/NaT) is the value None.  Positions are   *)
(* 1-based here and 0-based in the source.  A record carries the columns   *)
(* that the sort, the Status, the walk and the two dedup modes read; the   *)
(* other extracted columns pass through the tables untouched.              *)
(***************************************************************************)
EXTENDS Integers, Sequences, FiniteSets, TLC

VARIABLES table, pc, df, valid_indices, rotations, global_rotation, i, j,
          start_dep, current_rot, loop_positions, last_arr,
          xlsx, df_combined, duplicates, not_flown_df,
          folder, pdf_files, success_files, failed_files, log, artifacts, error,
          fields, data, to_be_processed, mapping_file, processed, run

vars == <<table, pc, df, valid_indices, rotations, global_rotation, i, j,
          start_dep, current_rot, loop_positions, last_arr,
          xlsx, df_combined, duplicates, not_flown_df,
          folder, pdf_files, success_files, failed_files, log, artifacts, error,
          fields, data, to_be_processed, mapping_file, processed, run>>

\* what the pattern loop of parse_fields matched, and the record parse_fields returns
parseVars == <<fields, data>>

\* the date folder, its PDF files, and the lists the per-file loop fills
loopVars == <<pdf_files, success_files, failed_files>>

\* what a run leaves on disk besides the tables, and the exception it ended with
diskVars == <<folder, log, artifacts, error>>

\* the registration folders waiting under To_Be_Processed, the lines of the folder's
\* file_reg_mapping.txt, the folders under Processed that carry the date folder's name
\* (outermost first, each named by the run that made it), and the number of the run
stageVars == <<to_be_processed, mapping_file, processed, run>>

walkVars == <<valid_indices, rotations, global_rotation, i, j,
              start_dep, current_rot, loop_positions, last_arr>>

outVars == <<xlsx, df_combined, duplicates, not_flown_df>>

----------------------------------------------------------------------------
(* Missing values and text helpers *)

None == <<"None">>

isna(x) == x = None

Range(s) == {s[k] : k \in DOMAIN s}

WS == {" "}

RECURSIVE lstrip(_)
lstrip(s) == IF s # <<>> /\ Head(s) \in WS THEN lstrip(Tail(s)) ELSE s

RECURSIVE rstrip(_)
rstrip(s) ==
    IF s # <<>> /\ s[Len(s)] \in WS THEN rstrip(SubSeq(s, 1, Len(s) - 1)) ELSE s

\* str.strip(); the pandas .str accessor leaves a missing value missing
strip(s) == IF isna(s) THEN s ELSE lstrip(rstrip(s))

Upper == <<"A", "B", "C", "D", "E", "F", "G", "H", "I", "J", "K", "L", "M",
           "N", "O", "P", "Q", "R", "S", "T", "U", "V", "W", "X", "Y", "Z">>

Lower == <<"a", "b", "c", "d", "e", "f", "g", "h", "i", "j", "k", "l", "m",
           "n", "o", "p", "q", "r", "s", "t", "u", "v", "w", "x", "y", "z">>

foldChar(c) ==
    IF \E k \in DOMAIN Upper : Upper[k] = c
    THEN Lower[CHOOSE k \in DOMAIN Upper : Upper[k] = c]
    ELSE c

\* str.casefold() on the ASCII letters used here
casefold(s) == IF isna(s) THEN s ELSE [k \in DOMAIN s |-> foldChar(s[k])]

\* ASCII order of the characters that occur in sort keys
Alphabet == <<" ", "-", "0", "1", "2", "3", "4", "5", "6", "7", "8", "9", ":">>
             \o Upper \o Lower

Ord(c) == CHOOSE k \in DOMAIN Alphabet : Alphabet[k] = c

RECURSIVE StrLess(_, _)
StrLess(a, b) ==
    IF b = <<>> THEN FALSE
    ELSE IF a = <<>> THEN TRUE
    ELSE IF Head(a) = Head(b) THEN StrLess(Tail(a), Tail(b))
    ELSE Ord(Head(a)) < Ord(Head(b))

Digits == <<"0", "1", "2", "3", "4", "5", "6", "7", "8", "9">>

IsDigit(c) == \E k \in DOMAIN Digits : Digits[k] = c

DigitVal(c) == (CHOOSE k \in DOMAIN Digits : Digits[k] = c) - 1

Pad2(n) == <<Digits[(n \div 10) + 1], Digits[(n % 10) + 1]>>

----------------------------------------------------------------------------
(* Dates and times: pd.to_datetime / strftime *)

RECURSIVE Split(_, _)
\* str.split(sep) for a one-character separator
Split(s, sep) ==
    IF \E k \in DOMAIN s : s[k] = sep
    THEN LET k == CHOOSE k \in DOMAIN s :
                      s[k] = sep /\ \A m \in 1..(k - 1) : s[m] # sep
         IN  <<SubSeq(s, 1, k - 1)>> \o Split(SubSeq(s, k + 1, Len(s)), sep)
    ELSE <<s>>

IsNumber(s) == Len(s) \in {1, 2} /\ \A k \in DOMAIN s : IsDigit(s[k])

NumVal(s) == IF Len(s) = 1 THEN DigitVal(s[1])
             ELSE 10 * DigitVal(s[1]) + DigitVal(s[2])

MonthAbbr == << <<"J", "a", "n">>, <<"F", "e", "b">>, <<"M", "a", "r">>,
                <<"A", "p", "r">>, <<"M", "a", "y">>, <<"J", "u", "n">>,
                <<"J", "u", "l">>, <<"A", "u", "g">>, <<"S", "e", "p">>,
                <<"O", "c", "t">>, <<"N", "o", "v">>, <<"D", "e", "c">> >>

IsMonth(s) == \E m \in DOMAIN MonthAbbr : casefold(MonthAbbr[m]) = casefold(s)

MonthNum(s) == CHOOSE m \in DOMAIN MonthAbbr : casefold(MonthAbbr[m]) = casefold(s)

\* %y: 69..99 are 1969..1999, 00..68 are 2000..2068
FullYear(yy) == IF yy >= 69 THEN 1900 + yy ELSE 2000 + yy

IsLeap(y) == (y % 4 = 0 /\ y % 100 # 0) \/ y % 400 = 0

DaysIn(y, m) == IF m = 2 THEN (IF IsLeap(y) THEN 29 ELSE 28)
                ELSE IF m \in {4, 6, 9, 11} THEN 30 ELSE 31

\* does the text match the format '%d-%b-%y'
MatchesDateFormat(s) ==
    LET p == Split(s, "-")
    IN  /\ Len(p) = 3
        /\ IsNumber(p[1])
        /\ IsMonth(p[2])
        /\ Len(p[3]) = 2 /\ IsNumber(p[3])
        /\ NumVal(p[1]) \in 1..DaysIn(FullYear(NumVal(p[3])), MonthNum(p[2]))

\* the calendar date <<year, month, day>> of a text that matches the format
DateValue(s) ==
    LET p == Split(s, "-")
    IN  <<FullYear(NumVal(p[3])), MonthNum(p[2]), NumVal(p[1])>>

\* pd.to_datetime(col, format='%d-%b-%y') raises on a text that does not match
DateRaises(x) == ~isna(x) /\ ~MatchesDateFormat(x)

to_datetime_date(x) == IF isna(x) THEN None ELSE DateValue(x)

\* Timestamp.strftime('%d-%b-%y'); NaT gives NaN
strftime_date(d) ==
    IF isna(d) THEN None
    ELSE Pad2(d[3]) \o <<"-">> \o MonthAbbr[d[2]] \o <<"-">> \o Pad2(d[1] % 100)

\* pd.to_datetime(col, errors='coerce').dt.normalize() on the date texts of the sheet
to_datetime_coerce(x) ==
    IF isna(x) \/ ~MatchesDateFormat(x) THEN None ELSE DateValue(x)

\* pd.to_datetime(col, format='%H:%M', errors='coerce') followed by strftime('%H:%M')
normalize_atd(x) ==
    IF isna(x) THEN None
    ELSE LET p == Split(x, ":")
         IN  IF /\ Len(p) = 2 /\ IsNumber(p[1]) /\ IsNumber(p[2])
                /\ NumVal(p[1]) <= 23 /\ NumVal(p[2]) <= 59
             THEN Pad2(NumVal(p[1])) \o <<":">> \o Pad2(NumVal(p[2]))
             ELSE None

DateLess(a, b) ==
    \/ a[1] < b[1]
    \/ a[1] = b[1] /\ a[2] < b[2]
    \/ a[1] = b[1] /\ a[2] = b[2] /\ a[3] < b[3]

----------------------------------------------------------------------------
(* sort_values(by=[Registration, Date, ATD]): stable, missing values last *)

\* -1, 0, 1 for one sort column; missing values tie with each other and sort last
CmpStr(x, y) ==
    IF x = y THEN 0
    ELSE IF isna(x) THEN 1
    ELSE IF isna(y) THEN -1
    ELSE IF StrLess(x, y) THEN -1
    ELSE IF StrLess(y, x) THEN 1 ELSE 0

CmpDate(x, y) ==
    IF isna(x) /\ isna(y) THEN 0
    ELSE IF isna(x) THEN 1
    ELSE IF isna(y) THEN -1
    ELSE IF DateLess(x, y) THEN -1
    ELSE IF DateLess(y, x) THEN 1 ELSE 0

SortsBeforeIgnoringATD(a, b) ==
    LET r == CmpStr(a.Registration, b.Registration)
        d == CmpDate(a.Date, b.Date)
    IN  \/ r = -1
        \/ r = 0 /\ d = -1

\* row a sorts strictly before row b
SortsBefore(a, b) ==
    LET r == CmpStr(a.Registration, b.Registration)
        d == CmpDate(a.Date, b.Date)
        t == CmpStr(a.ATD, b.ATD)
    IN  \/ r = -1
        \/ r = 0 /\ d = -1
        \/ r = 0 /\ d = 0 /\ t = -1

RECURSIVE InsertRowBeforeTies(_, _)
InsertRowBeforeTies(s, x) ==
    IF s # <<>> /\ ~SortsBefore(s[Len(s)], x)
    THEN Append(InsertRowBeforeTies(SubSeq(s, 1, Len(s) - 1), x), s[Len(s)])
    ELSE Append(s, x)

RECURSIVE InsertRow(_, _)
\* put x behind every row that does not sort after it
InsertRow(s, x) ==
    IF s # <<>> /\ SortsBefore(x, s[Len(s)])
    THEN Append(InsertRow(SubSeq(s, 1, Len(s) - 1), x), s[Len(s)])
    ELSE Append(s, x)

RECURSIVE sort_values(_)
sort_values(s) ==
    IF s = <<>> THEN <<>>
    ELSE InsertRow(sort_values(SubSeq(s, 1, Len(s) - 1)), s[Len(s)])

----------------------------------------------------------------------------
(* assign_rotations *)

NotFlown == <<"N", "o", "t", " ", "F", "l", "o", "w", "n">>

Cancelled == <<"C", "a", "n", "c", "e", "l", "l", "e", "d">>

Completed == <<"C", "o", "m", "p", "l", "e", "t", "e", "d">>

\* Python == on two cell values: None == None is True
PyEq(x, y) == x = y

\* the element-wise != of two object columns: a missing value on either side gives True
NeVec(x, y) == IF isna(x) \/ isna(y) THEN TRUE ELSE x # y

_blank(x) == isna(x) \/ strip(x) = <<>>

StatusCancelledFirst(row) ==
    IF PyEq(row.Dep, row.Arr) THEN Cancelled
    ELSE IF _blank(row.TO) /\ _blank(row.LDG) THEN NotFlown ELSE Completed

\* the lambda of df.apply that fills the Status column
StatusOf(row) ==
    IF _blank(row.TO) /\ _blank(row.LDG) THEN NotFlown
    ELSE IF PyEq(row.Dep, row.Arr) THEN Cancelled ELSE Completed

\* steps 1 and 2: the Date column parsed and the ATD column normalised, row by row
ParseColumns(t) ==
    [k \in DOMAIN t |->
        [t[k] EXCEPT !.Date = to_datetime_date(t[k].Date),
                     !.ATD = normalize_atd(t[k].ATD)]]

\* steps 3 and 4: the parsed rows sorted, with the Status column
SortAndClassify(parsed) ==
    LET sorted == sort_values(parsed)
    IN  [k \in DOMAIN sorted |-> [sorted[k] EXCEPT !.Status = StatusOf(sorted[k])]]

\* the copy with Date and ATD parsed, sorted, with the Status column
Prepare(t) == SortAndClassify(ParseColumns(t))

PrepareRaises(t) == \E k \in DOMAIN t : DateRaises(t[k].Date)

RECURSIVE SelectIndices(_, _, _)
\* the positions k..Len(d) of d whose row passes the Dep != Arr filter, in order
SelectIndices(d, k, acc) ==
    IF k > Len(d) THEN acc
    ELSE SelectIndices(d, k + 1,
            IF NeVec(d[k].Dep, d[k].Arr) THEN Append(acc, k) ELSE acc)

ValidIndices(d) == SelectIndices(d, 1, <<>>)

ValidRows(d, vi) == [k \in DOMAIN vi |-> d[vi[k]]]

RECURSIVE InnerScan(_, _, _, _, _)
\* the inner while loop: extend the chain while the next leg departs from last_arr
InnerScan(valid, sd, la, jj, lp) ==
    IF jj <= Len(valid) /\ PyEq(valid[jj].Dep, la)
    THEN LET lp2 == Append(lp, jj)
             la2 == valid[jj].Arr
         IN  IF PyEq(la2, sd)
             THEN [j |-> jj, last_arr |-> la2, loop_positions |-> lp2]
             ELSE InnerScan(valid, sd, la2, jj + 1, lp2)
    ELSE [j |-> jj, last_arr |-> la, loop_positions |-> lp]

AdvanceNeverSkips(n, jj, la, sd) == jj

AdvanceAlwaysSkips(n, jj, la, sd) == jj + 1

\* where the outer loop resumes after a rotation
Advance(n, jj, la, sd) == IF jj <= n /\ PyEq(la, sd) THEN jj + 1 ELSE jj

\* one iteration of the outer while loop, started at position w.i
OuterIteration(valid, w) ==
    LET sd   == valid[w.i].Dep
        cur  == w.global_rotation + 1
        scan == InnerScan(valid, sd, valid[w.i].Arr, w.i + 1, <<w.i>>)
    IN  [i               |-> Advance(Len(valid), scan.j, scan.last_arr, sd),
         j               |-> scan.j,
         start_dep       |-> sd,
         current_rot     |-> cur,
         loop_positions  |-> scan.loop_positions,
         last_arr        |-> scan.last_arr,
         global_rotation |-> cur,
         rotations       |-> [p \in DOMAIN w.rotations |->
                                 IF p \in Range(scan.loop_positions)
                                 THEN cur ELSE w.rotations[p]]]

\* the walk's variables before the first iteration
WalkInit(n) ==
    [i |-> 1, j |-> 0, start_dep |-> None, current_rot |-> 0,
     loop_positions |-> <<>>, last_arr |-> None, global_rotation |-> 0,
     rotations |-> [p \in 1..n |-> 0]]

RECURSIVE WalkFrom(_, _)
WalkFrom(valid, w) ==
    IF w.i <= Len(valid) THEN WalkFrom(valid, OuterIteration(valid, w)) ELSE w

\* step 6: Rotation is 0 except at the filtered positions
MapBack(d, vi, rot) ==
    [k \in DOMAIN d |->
        [d[k] EXCEPT !.Rotation =
            IF \E p \in DOMAIN vi : vi[p] = k
            THEN rot[CHOOSE p \in DOMAIN vi : vi[p] = k] ELSE 0]]

\* steps 5 and 6 on the prepared table d: the filter, the walk and the Rotation column
WalkTable(d) ==
    LET vi == ValidIndices(d)
        w  == WalkFrom(ValidRows(d, vi), WalkInit(Len(vi)))
    IN  MapBack(d, vi, w.rotations)

\* assign_rotations as a function of its table (defined when Prepare does not raise)
assign_rotations(t) == WalkTable(Prepare(t))

----------------------------------------------------------------------------
(* The tables written by process_pdf_folder and the two dedup modes *)

KEY_COLS == <<"EnquiryNo", "Date", "FlightNumber">>

\* df.rename / df.drop / Date strftime / DelayCode split, as written to the extended sheet
ExtendedRow(r) ==
    [filename     |-> r.filename,
     EnquiryNo    |-> r.EnquiryNo,
     Date         |-> strftime_date(r.Date),
     FlightNumber |-> r.FlightNumber,
     Registration |-> r.Registration,
     Dep          |-> r.Dep,
     Arr          |-> r.Arr,
     ATD          |-> r.ATD,
     TO           |-> r.TO,
     LDG          |-> r.LDG,
     DelayCode    |-> IF isna(r.DelayCode) THEN None ELSE Split(r.DelayCode, "/")[1],
     Duration     |-> r.DelayDuration,
     Status       |-> r.Status,
     Rotation     |-> r.Rotation]

Extended(d) == [k \in DOMAIN d |-> ExtendedRow(d[k])]

RECURSIVE SelectRows(_, _, _)
\* d.loc[mask]: the rows of d at the positions in keep, in their order
SelectRows(d, keep, k) ==
    IF k > Len(d) THEN <<>>
    ELSE (IF k \in keep THEN <<d[k]>> ELSE <<>>) \o SelectRows(d, keep, k + 1)

\* the key that drop_all_dupe_keys compares: the object columns stripped
StrippedKey(r) == <<strip(r.EnquiryNo), strip(r.Date), strip(r.FlightNumber)>>

DuplicatedKeepFirst(keys) ==
    {k \in DOMAIN keys : \E m \in 1..(k - 1) : keys[m] = keys[k]}

\* DataFrame.duplicated(keep=False) over a sequence of keys
DuplicatedMask(keys) ==
    {k \in DOMAIN keys : \E m \in DOMAIN keys : m # k /\ keys[m] = keys[k]}

DropDupesStrippedAfterMask(d) ==
    LET raw == [k \in DOMAIN d |-> <<d[k].EnquiryNo, d[k].Date, d[k].FlightNumber>>]
        tmp == [k \in DOMAIN d |->
                  [d[k] EXCEPT !.EnquiryNo = strip(d[k].EnquiryNo),
                               !.Date = strip(d[k].Date),
                               !.FlightNumber = strip(d[k].FlightNumber)]]
    IN  SelectRows(tmp, DOMAIN d \ DuplicatedMask(raw), 1)

drop_all_dupe_keys(d) ==
    LET tmp == [k \in DOMAIN d |-> StrippedKey(d[k])]
    IN  SelectRows(d, DOMAIN d \ DuplicatedMask(tmp), 1)

\* df[df['Status'] != 'Not Flown']
RemoveNotFlown(d) ==
    SelectRows(d, {k \in DOMAIN d : NeVec(d[k].Status, NotFlown)}, 1)

\* Mode B: the rows of the combined table, before its filename column is dropped
ModeB(d) == drop_all_dupe_keys(RemoveNotFlown(d))

DropFilename(r) ==
    [f \in DOMAIN r \ {"filename"} |-> r[f]]

Combined(d) == LET kept == ModeB(d) IN [k \in DOMAIN kept |-> DropFilename(kept[k])]

\* astype(str).str.strip().str.casefold() of a Status cell
StatusSeries(x) == casefold(strip(IF isna(x) THEN <<"n", "a", "n">> ELSE x))

not_flown == <<"n", "o", "t", " ", "f", "l", "o", "w", "n">>

\* the key that extract_duplicates_from_file compares: only Date is normalised
SheetKey(r) == <<r.EnquiryNo, to_datetime_coerce(r.Date), r.FlightNumber>>

AIReason == "Duplicate flight number on same date."

ModeASplitAfterDuplicates(sheet) ==
    LET nf   == {k \in DOMAIN sheet : StatusSeries(sheet[k].Status) = not_flown}
        key  == [k \in DOMAIN sheet |-> SheetKey(sheet[k])]
        dups == SelectRows(sheet, DuplicatedMask(key) \ nf, 1)
    IN  [not_flown_df |-> SelectRows(sheet, nf, 1),
         duplicates   |-> [k \in DOMAIN dups |-> dups[k] @@ [AIReason |-> AIReason]]]

\* Mode A: the Not_flown split and the Duplicates table of a sheet
ModeA(sheet) ==
    LET nf   == {k \in DOMAIN sheet : StatusSeries(sheet[k].Status) = not_flown}
        rest == SelectRows(sheet, DOMAIN sheet \ nf, 1)
        key  == [k \in DOMAIN rest |-> SheetKey(rest[k])]
        dups == SelectRows(rest, DuplicatedMask(key), 1)
    IN  [not_flown_df |-> SelectRows(sheet, nf, 1),
         duplicates   |-> [k \in DOMAIN dups |-> dups[k] @@ [AIReason |-> AIReason]]]

----------------------------------------------------------------------------
(* parse_fields: replace_prefix and get_delay_reason *)

\* a Python value that is neither None nor the empty string
Truthy(x) == ~isna(x) /\ x # <<>>

upperChar(c) ==
    IF \E k \in DOMAIN Lower : Lower[k] = c
    THEN Upper[CHOOSE k \in DOMAIN Lower : Lower[k] = c]
    ELSE c

\* str.upper() on the ASCII characters used here
upper(s) == [k \in DOMAIN s |-> upperChar(s[k])]

\* str.startswith
startswith(s, key) == Len(key) <= Len(s) /\ SubSeq(s, 1, Len(key)) = key

\* a dict is the sequence of its <<key, value>> items, in insertion order
DictKeys(d) == [k \in DOMAIN d |-> d[k][1]]

DictHas(d, key) == \E k \in DOMAIN d : d[k][1] = key

DictGet(d, key) == d[CHOOSE k \in DOMAIN d : d[k][1] = key][2]

\* the exact table: full code -> replacement
code_map_1 == << << <<"A", "B", "1">>, <<"X", "Y", "9">> >>,
                 << <<"B", "B">>, <<"Q">> >> >>

\* the prefix table: code prefix -> replacement
code_map_2 == << << <<"A">>, <<"Z">> >>,
                 << <<"A", "B">>, <<"X", "Y">> >>,
                 << <<"B">>, <<"W", "W">> >> >>

\* the delay-reason table, with its reserved entry 99
delay_codes == << << <<"1", "2">>, <<"W", "e", "a", "t", "h", "e", "r">> >>,
                  << <<"9", "9">>, <<"O", "t", "h", "e", "r">> >> >>

RECURSIVE InsertKey(_, _)
\* put key behind every key that is not shorter
InsertKey(ks, key) ==
    IF ks # <<>> /\ Len(ks[Len(ks)]) < Len(key)
    THEN Append(InsertKey(SubSeq(ks, 1, Len(ks) - 1), key), ks[Len(ks)])
    ELSE Append(ks, key)

RECURSIVE SortedByLenDesc(_)
\* sorted(keys, key=len, reverse=True): longest first, stable
SortedByLenDesc(ks) ==
    IF ks = <<>> THEN <<>>
    ELSE InsertKey(SortedByLenDesc(SubSeq(ks, 1, Len(ks) - 1)), ks[Len(ks)])

SortedKeysInTableOrder == DictKeys(code_map_2)

sorted_keys == SortedByLenDesc(DictKeys(code_map_2))

RECURSIVE PrefixScan(_, _)
\* the for loop over sorted_keys from position k on
PrefixScan(flight_code, k) ==
    IF k > Len(sorted_keys) THEN flight_code
    ELSE IF startswith(upper(flight_code), sorted_keys[k])
         THEN DictGet(code_map_2, sorted_keys[k])
                \o SubSeq(flight_code, Len(sorted_keys[k]) + 1, Len(flight_code))
         ELSE PrefixScan(flight_code, k + 1)

ReplacePrefixOnly(flight_code) ==
    IF ~Truthy(flight_code) THEN flight_code ELSE PrefixScan(flight_code, 1)

replace_prefix(flight_code) ==
    IF ~Truthy(flight_code) THEN flight_code
    ELSE IF DictHas(code_map_1, upper(flight_code))
         THEN DictGet(code_map_1, upper(flight_code))
         ELSE PrefixScan(flight_code, 1)

GetDelayReasonEchoesUnknown(delay_code) ==
    IF ~Truthy(delay_code) THEN delay_code
    ELSE LET clean_code == Split(strip(delay_code), "/")[1]
         IN  IF DictHas(delay_codes, clean_code)
             THEN DictGet(delay_codes, clean_code)
             ELSE delay_code

get_delay_reason(delay_code) ==
    IF ~Truthy(delay_code) THEN delay_code
    ELSE LET clean_code == Split(strip(delay_code), "/")[1]
         IN  IF DictHas(delay_codes, clean_code)
             THEN DictGet(delay_codes, clean_code)
             ELSE DictGet(delay_codes, <<"9", "9">>)

\* parse_fields after the pattern loop: the FlightNumber and DelayReason of the record
ParsedFields(m) ==
    [FlightNumber |-> replace_prefix(m.FlightNumber),
     DelayCode    |-> m.DelayCode,
     DelayReason  |-> IF Truthy(m.DelayCode) THEN get_delay_reason(m.DelayCode)
                      ELSE m.DelayReason]

----------------------------------------------------------------------------
(* process_pdf_folder: the folder checks and the per-file loop *)

BatchFatalOnlyWhenMissing(fl, files) == fl = "missing"

\* the folder does not exist, or folder_path.glob("*.pdf") finds nothing
BatchFatal(fl, files) == fl = "missing" \/ files = <<>>

\* the exception raised by the folder checks
FatalError(fl) ==
    IF fl = "missing" THEN "No such processing folder"
    ELSE "No PDF files found in folder"

\* extract_data_from_pdf raises on a file that fitz cannot open or read
ExtractionRaises(f) == ~f.readable

\* the line move_file appends to file_reg_mapping.txt for a file, without its newline
MappingLine(name, reg_no) == name \o <<":">> \o reg_no

\* line.split(":", 1) of a line that holds a ":"
SplitFirst(line) ==
    LET at == CHOOSE k \in DOMAIN line :
                  line[k] = ":" /\ \A m \in 1..(k - 1) : line[m] # ":"
    IN  <<SubSeq(line, 1, at - 1), SubSeq(line, at + 1, Len(line))>>

GetRegNoOfFirstLine(lines, filename) ==
    IF lines = <<>> THEN None ELSE SplitFirst(strip(lines[1]))[2]

RECURSIVE ScanMapping(_, _, _)
\* the loop over the lines k.. of the mapping file: the first line of the file name wins
ScanMapping(lines, filename, k) ==
    IF k > Len(lines) THEN None
    ELSE LET line == strip(lines[k])
         IN  IF (\E p \in DOMAIN line : line[p] = ":")
                   /\ SplitFirst(line)[1] = filename
             THEN SplitFirst(line)[2]
             ELSE ScanMapping(lines, filename, k + 1)

\* get_original_reg_no; a folder without mapping file has no lines
get_original_reg_no(lines, filename) == ScanMapping(lines, filename, 1)

\* the record of a file after the override of EnquiryNo and with its filename
RecordOf(f, original_reg_no) ==
    [f.data EXCEPT !.EnquiryNo = IF Truthy(original_reg_no) THEN original_reg_no ELSE @,
                   !.filename = f.name]

\* the lists and the log when the loop starts
LoopStart ==
    [extracted_data |-> <<>>, success_files |-> <<>>, failed_files |-> <<>>,
     log |-> << <<"Started processing">> >>]

ProcessOneCountsFailureAsSuccess(st, f) ==
    IF ExtractionRaises(f)
    THEN [st EXCEPT !.success_files = Append(@, f.name),
                    !.failed_files = Append(@, f.name),
                    !.log = Append(@, <<"Error reading", f.name>>)]
    ELSE LET original_reg_no == get_original_reg_no(mapping_file, f.name)
         IN  [st EXCEPT !.extracted_data = Append(@, RecordOf(f, original_reg_no)),
                        !.success_files = Append(@, f.name),
                        !.log = Append(@, <<"Processed", f.name, original_reg_no>>)]

\* one iteration of the per-file loop: the try block, or its except handler
ProcessOne(st, f) ==
    IF ExtractionRaises(f)
    THEN [st EXCEPT !.failed_files = Append(@, f.name),
                    !.log = Append(@, <<"Error reading", f.name>>)]
    ELSE LET original_reg_no == get_original_reg_no(mapping_file, f.name)
         IN  [st EXCEPT !.extracted_data = Append(@, RecordOf(f, original_reg_no)),
                        !.success_files = Append(@, f.name),
                        !.log = Append(@, <<"Processed", f.name, original_reg_no>>)]

RECURSIVE RunLoop(_, _, _)
\* the iterations of the loop over the files k..Len(files)
RunLoop(st, files, k) ==
    IF k > Len(files) THEN st ELSE RunLoop(ProcessOne(st, files[k]), files, k + 1)

SummaryMessageCountsAllFiles(ok, failed) ==
    <<"Summary", ok, failed, Len(ok) + Len(failed)>>

\* the summary block appended to the local log
SummaryMessage(ok, failed) == <<"Summary", ok, failed, Len(ok)>>

\* the two sheets a run writes into the folder
ExtendedSheet == "combined_data_extended.xlsx"

CombinedSheet == "combined_data.xlsx"

----------------------------------------------------------------------------
(* Input tables *)

MaxLegs == 3

MaxDedupRows == 3

MaxStatusRows == 1

MaxSheetRows == 3

MaxFiles == 3

MaxSortRows == 3

MaxCodeLen == 3

\* rows of a table of flown and not flown legs
MaxFlownRows == 2

R1 == <<"9", "H", "-", "S", "L", "D">>

R2 == <<"9", "H", "-", "S", "L", "E">>

DEL == <<"D", "E", "L">>

BOM == <<"B", "O", "M">>

BLR == <<"B", "L", "R">>

Airports == {DEL, BOM, BLR}

D1 == <<"0", "5", "-", "J", "a", "n", "-", "2", "5">>

D1Alt == <<"5", "-", "j", "a", "n", "-", "2", "5">>

D2 == <<"0", "6", "-", "J", "a", "n", "-", "2", "5">>

BadDate == <<"2", "0", "2", "5", "-", "0", "1", "-", "0", "5">>

F1 == <<"A", "B", "1">>

F1Pad == <<"A", "B", "1", " ">>

F2 == <<"X", "Y", "2">>

E1Pad == <<" ">> \o R1

T1000 == <<"1", "0", ":", "0", "0">>

NotFlownPadded == <<" ", "n", "o", "t", " ", "f", "l", "o", "w", "n", " ">>

\* the name of the k-th file of the folder
FileName(k) == <<"f", Digits[k + 1], ".", "p", "d", "f">>

\* the off-blocks time of the k-th file: later files carry earlier times
ATDAt(k) == Pad2(23 - k) \o <<":", "0", "0">>

\* a record as parse_fields and process_pdf_folder build it
Row(k, enq, date, fl, reg, dep, arr, to, ldg) ==
    [filename      |-> FileName(k),
     EnquiryNo     |-> enq,
     Date          |-> date,
     FlightNumber  |-> fl,
     Registration  |-> reg,
     Dep           |-> dep,
     Arr           |-> arr,
     ATD           |-> ATDAt(k),
     TO            |-> to,
     LDG           |-> ldg,
     DelayCode     |-> None,
     DelayDuration |-> None,
     DelayReason   |-> None,
     Status        |-> None,
     Rotation      |-> None]

\* routes of the rotation tables: legs that close loops of two and of three airports, a
\* leg that returns to its departure airport, and a leg with no route extracted
Routes == {<<DEL, BOM>>, <<BOM, DEL>>, <<BOM, BLR>>, <<BLR, DEL>>,
           <<DEL, DEL>>, <<None, None>>}

\* the second registration flies one route
LegChoices == ({R1} \X Routes) \cup ({R2} \X {<<BOM, DEL>>})

LegTable(c) ==
    [k \in DOMAIN c |->
        Row(k, c[k][1], D1, F1, c[k][1], c[k][2][1], c[k][2][2], T1000, T1000)]

\* keys of the dedup tables: padded, re-spelled, different and missing values
KeyChoices == {<<R1, D1, F1>>, <<R1, D1, F1Pad>>, <<E1Pad, D1, F1>>,
               <<R1, D1Alt, F1>>, <<R1, D2, F1>>, <<R1, None, F1>>}

\* flown records with every key, and a record that never took off
DedupChoices == (KeyChoices \X {T1000}) \cup {<<<<R1, D1, F1>>, None>>}

DedupTable(c) ==
    [k \in DOMAIN c |->
        Row(k, c[k][1][1], c[k][1][2], c[k][1][3], R1, DEL, BOM, c[k][2], c[k][2])]

Blanks == {None, <<>>, <<" ">>, T1000}

\* every pair of TO and LDG cells on a leg between two airports, some of them on the
\* other kinds of route, and a record whose Date is not a date
StatusChoices ==
    (Blanks \X Blanks \X {<<DEL, BOM>>} \X {D1})
    \cup ({<<None, None>>, <<<<" ">>, <<>>>>, <<<<" ">>, None>>, <<T1000, None>>,
           <<T1000, T1000>>}
          \X {<<DEL, DEL>>, <<None, None>>, <<DEL, None>>} \X {D1})
    \cup {<<T1000, T1000, <<DEL, BOM>>, BadDate>>}

StatusTable(c) ==
    [k \in DOMAIN c |->
        IF Len(c[k]) = 4
        THEN Row(k, R1, c[k][4], F1, R1, c[k][3][1], c[k][3][2], c[k][1], c[k][2])
        ELSE Row(k, R1, c[k][3], F1, R1, c[k][2][1], c[k][2][2], c[k][1][1], c[k][1][2])]

\* sheets handed to extract_duplicates_from_file that no batch run wrote
SheetChoices ==
    ({<<R1, D1, F1>>, <<R1, D1, F1Pad>>, <<R1, D1Alt, F1>>, <<R1, D2, F1>>}
        \X {Completed})
    \cup ({<<R1, D1, F1>>} \X {NotFlown, NotFlownPadded})

SheetTable(c) ==
    [k \in DOMAIN c |->
        [ExtendedRow(Row(k, c[k][1][1], None, c[k][1][3], R1, DEL, BOM, T1000, T1000))
            EXCEPT !.Date = c[k][1][2], !.Status = c[k][2], !.Rotation = k]]

T0900 == <<"0", "9", ":", "0", "0">>

T2500 == <<"2", "5", ":", "0", "0">>

\* registration, date and off-blocks time of the records that exercise the sort: equal
\* keys, an earlier time in a later file, and times that are missing or not a time
SortChoices == {<<R1, D1, T1000>>, <<R1, D1, T0900>>, <<R1, D1, None>>,
                <<R1, D1, T2500>>, <<R1, D2, T0900>>, <<R2, D1, T1000>>}

SortTable(c) ==
    [k \in DOMAIN c |->
        [Row(k, c[k][1], c[k][2], F1, c[k][1], DEL, BOM, T1000, T1000)
            EXCEPT !.ATD = c[k][3]]]

\* legs of one aircraft on one day that took off and landed or did neither, with and
\* without a route
FlownChoices == {<<DEL, BOM>>, <<BOM, DEL>>, <<None, None>>} \X {T1000, None}

FlownTable(c) ==
    [k \in DOMAIN c |->
        Row(k, R1, D1, F1, R1, c[k][1][1], c[k][1][2], c[k][2], c[k][2])]

\* t is the table extracted from a folder of one of the five kinds
IsInputTable(t) ==
    \/ \E k \in 1..MaxLegs : \E c \in [1..k -> LegChoices] : t = LegTable(c)
    \/ \E k \in 1..MaxDedupRows : \E c \in [1..k -> DedupChoices] : t = DedupTable(c)
    \/ \E k \in 1..MaxStatusRows : \E c \in [1..k -> StatusChoices] : t = StatusTable(c)
    \/ \E k \in 1..MaxSortRows : \E c \in [1..k -> SortChoices] : t = SortTable(c)
    \/ \E k \in 1..MaxFlownRows : \E c \in [1..k -> FlownChoices] : t = FlownTable(c)

\* the files of a folder from which the loop extracts the table t
FilesOf(t) ==
    [k \in DOMAIN t |->
        [name |-> t[k].filename, readable |-> TRUE,
         data |-> [t[k] EXCEPT !.filename = None]]]

Unreadable == <<"Unreadable">>

\* a file holds an outbound leg or a return leg, or cannot be read
FileChoices == {<<DEL, BOM>>, <<BOM, DEL>>, Unreadable}

FolderFiles(c) ==
    [k \in DOMAIN c |->
        IF c[k] = Unreadable
        THEN [name |-> FileName(k), readable |-> FALSE, data |-> None]
        ELSE [name |-> FileName(k), readable |-> TRUE,
              data |-> [Row(k, R1, D1, F1, R1, c[k][1], c[k][2], T1000, T1000)
                          EXCEPT !.filename = None]]]

\* the name of the date folder: TODAY_STR, set once when the module is loaded
TODAY_STR == <<"2", "0", "2", "5", "-", "0", "1", "-", "0", "5", "_", "1", "0", "-", "0", "0">>

\* the path of a PDF file of a date folder, from the Processing directory on
PdfPath(date_folder, name) == <<date_folder, name>>

\* os.path.basename(os.path.dirname(pdf_path)): what parse_fields puts in EnquiryNo
ParentFolderName(pdf_path) == pdf_path[Len(pdf_path) - 1]

\* a readable file of the date folder and the record parse_fields builds from it
StagedFile(k, fl, reg, dep, arr) ==
    [name |-> FileName(k), readable |-> TRUE,
     data |-> [Row(k, ParentFolderName(PdfPath(TODAY_STR, FileName(k))), D1, fl, reg,
                   dep, arr, T1000, T1000)
                 EXCEPT !.filename = None]]

\* the registration folders under To_Be_Processed and their files: both hold a file of
\* the same name
Registrations == {R1, R2}

To_Be_Processed(reg_no) ==
    IF reg_no = R1
    THEN <<StagedFile(1, F1, R1, DEL, BOM), StagedFile(2, F2, R1, BOM, DEL)>>
    ELSE <<StagedFile(1, F2, R2, BOM, DEL)>>

\* a file that was put into the date folder without move_file
DirectFile == StagedFile(3, F1, R1, DEL, BOM)

\* the characters of the raw flight codes: letters of the tables' keys in both cases,
\* and a digit
CodeChars == {"A", "a", "B", "b", "1"}

\* the DelayCode matches: none, codes in and not in the table, with and without suffix
DelayCodeChoices ==
    {None, <<>>, <<"1", "2">>, <<"1", "2", "/", "B">>, <<"0", "7">>,
     <<"0", "7", "/", "A">>, <<"/", "A">>, <<"9", "9">>, <<"0", "7", "/", "1", "2">>}

Matches(fl, dc) == [FlightNumber |-> fl, DelayCode |-> dc, DelayReason |-> None]

\* m is what the pattern loop matched in the text of a file
IsInputMatch(m) ==
    \/ \E k \in 0..MaxCodeLen : \E c \in [1..k -> CodeChars] : m = Matches(c, None)
    \/ m = Matches(None, None)
    \/ \E dc \in DelayCodeChoices : m = Matches(F1, dc)

\* fs are the PDF files of a folder, none, some or all of them unreadable
IsInputFolder(fs) ==
    \E k \in 0..MaxFiles : \E c \in [1..k -> FileChoices] : fs = FolderFiles(c)

IsInputSheet(t) ==
    \E k \in 1..MaxSheetRows : \E c \in [1..k -> SheetChoices] : t = SheetTable(c)

----------------------------------------------------------------------------
(* The state machine *)

walk == [i |-> i, j |-> j, start_dep |-> start_dep, current_rot |-> current_rot,
         loop_positions |-> loop_positions, last_arr |-> last_arr,
         global_rotation |-> global_rotation, rotations |-> rotations]

SetWalk(w) ==
    /\ i' = w.i
    /\ j' = w.j
    /\ start_dep' = w.start_dep
    /\ current_rot' = w.current_rot
    /\ loop_positions' = w.loop_positions
    /\ last_arr' = w.last_arr
    /\ global_rotation' = w.global_rotation
    /\ rotations' = w.rotations

valid == ValidRows(df, valid_indices)

n == Len(valid_indices)

InitCommon ==
    /\ df = <<>>
    /\ valid_indices = <<>>
    /\ i = 1 /\ j = 0 /\ start_dep = None /\ current_rot = 0
    /\ loop_positions = <<>> /\ last_arr = None
    /\ global_rotation = 0 /\ rotations = <<>>
    /\ df_combined = <<>>
    /\ duplicates = <<>>
    /\ not_flown_df = <<>>
    /\ data = None

\* nothing waits under To_Be_Processed, the folder has no mapping file, and Processed
\* has no folder of the date folder's name
InitNoStaging ==
    /\ to_be_processed = {}
    /\ mapping_file = <<>>
    /\ processed = <<>>
    /\ run = 1

\* a batch whose files were all read and extracted into table
InitBatch ==
    /\ IsInputTable(table)
    /\ pc = "extracted"
    /\ xlsx = <<>>
    /\ fields = None
    /\ InitCommon
    /\ InitNoStaging
    /\ folder = "Processing"
    /\ pdf_files = FilesOf(table)
    /\ LET r == RunLoop(LoopStart, pdf_files, 1)
       IN  /\ table = r.extracted_data
           /\ success_files = r.success_files
           /\ failed_files = r.failed_files
           /\ log = r.log
    /\ artifacts = {}
    /\ error = "none"

\* process_pdf_folder is called for a date folder
InitFolder ==
    /\ \/ folder = "missing" /\ pdf_files = <<>>
       \/ folder = "Processing" /\ IsInputFolder(pdf_files)
    /\ pc = "start"
    /\ table = <<>>
    /\ xlsx = <<>>
    /\ fields = None
    /\ InitCommon
    /\ InitNoStaging
    /\ success_files = <<>> /\ failed_files = <<>>
    /\ log = <<>>
    /\ artifacts = {}
    /\ error = "none"

\* a sheet on disk, to be read by extract_duplicates_from_file
InitSheet ==
    /\ table = <<>>
    /\ pc = "sheet"
    /\ IsInputSheet(xlsx)
    /\ fields = None
    /\ InitCommon
    /\ InitNoStaging
    /\ folder = "missing"
    /\ pdf_files = <<>> /\ success_files = <<>> /\ failed_files = <<>>
    /\ log = <<>>
    /\ artifacts = {}
    /\ error = "none"

\* the text of a file has been matched against the patterns of parse_fields
InitParse ==
    /\ IsInputMatch(fields)
    /\ pc = "matched"
    /\ table = <<>>
    /\ xlsx = <<>>
    /\ InitCommon
    /\ InitNoStaging
    /\ folder = "missing"
    /\ pdf_files = <<>> /\ success_files = <<>> /\ failed_files = <<>>
    /\ log = <<>>
    /\ artifacts = {}
    /\ error = "none"

\* registration folders wait to be staged; the date folder does not exist yet or holds a
\* file nobody staged, and Processed is empty or has a folder of the same name from an
\* earlier run
InitStaging ==
    /\ pc = "staging"
    /\ to_be_processed = Registrations
    /\ mapping_file = <<>>
    /\ processed \in {<<>>, <<0>>}
    /\ run = 1
    /\ \/ folder = "missing" /\ pdf_files = <<>>
       \/ folder = "Processing" /\ pdf_files = <<DirectFile>>
    /\ table = <<>>
    /\ xlsx = <<>>
    /\ fields = None
    /\ InitCommon
    /\ success_files = <<>> /\ failed_files = <<>>
    /\ log = <<>>
    /\ artifacts = {}
    /\ error = "none"

Init == InitBatch \/ InitFolder \/ InitSheet \/ InitParse \/ InitStaging

\* parse_fields from the end of the pattern loop to the return
ParseFields ==
    /\ pc = "matched"
    /\ data' = ParsedFields(fields)
    /\ pc' = "parsed"
    /\ UNCHANGED <<fields, stageVars, table, df, walkVars, outVars, loopVars, diskVars>>

\* shutil.copy2 of a file into the folder: a file of the same name is overwritten
PutFile(files, f) ==
    IF \E p \in DOMAIN files : files[p].name = f.name
    THEN [p \in DOMAIN files |-> IF files[p].name = f.name THEN f ELSE files[p]]
    ELSE Append(files, f)

RECURSIVE CopyInto(_, _, _)
\* the loop of move_file over the files k.. of the registration folder
CopyInto(files, src, k) ==
    IF k > Len(src) THEN files ELSE CopyInto(PutFile(files, src[k]), src, k + 1)

\* move_file: the date folder is made if it is not there (a new one when the last run
\* has moved its folder away, and the state of that run is gone), every file of the
\* registration folder is copied into it and gets a line in the mapping file, and the
\* registration folder is deleted
MoveFile(reg_no) ==
    /\ pc \in {"staging", "moved"}
    /\ reg_no \in to_be_processed
    /\ LET fresh == pc = "moved"
           src   == To_Be_Processed(reg_no)
       IN  /\ pdf_files' = CopyInto(IF fresh THEN <<>> ELSE pdf_files, src, 1)
           /\ mapping_file' = (IF fresh THEN <<>> ELSE mapping_file)
                                \o [k \in DOMAIN src |-> MappingLine(src[k].name, reg_no)]
           /\ run' = IF fresh THEN run + 1 ELSE run
           /\ IF fresh
              THEN /\ table' = <<>> /\ df' = <<>> /\ valid_indices' = <<>>
                   /\ SetWalk(WalkInit(0))
                   /\ xlsx' = <<>> /\ df_combined' = <<>>
                   /\ duplicates' = <<>> /\ not_flown_df' = <<>>
                   /\ success_files' = <<>> /\ failed_files' = <<>>
                   /\ log' = <<>> /\ artifacts' = {}
              ELSE UNCHANGED <<table, df, walkVars, outVars, success_files, failed_files,
                               log, artifacts>>
    /\ to_be_processed' = to_be_processed \ {reg_no}
    /\ folder' = "Processing"
    /\ pc' = "staging"
    /\ UNCHANGED <<parseVars, processed, error>>

\* process_upload and the main script call process_pdf_folder for the date folder
CallProcessPdfFolder ==
    /\ pc = "staging"
    /\ pc' = "start"
    /\ UNCHANGED <<parseVars, stageVars, table, df, walkVars, outVars, loopVars, diskVars>>

\* the folder checks raise before anything is opened or written
AbortBatch ==
    /\ pc = "start"
    /\ BatchFatal(folder, pdf_files)
    /\ pc' = "raised"
    /\ error' = FatalError(folder)
    /\ UNCHANGED <<parseVars, stageVars, table, df, walkVars, outVars, loopVars, folder, log, artifacts>>

\* the local log is opened and the start line written
StartProcessing ==
    /\ pc = "start"
    /\ ~BatchFatal(folder, pdf_files)
    /\ table' = LoopStart.extracted_data
    /\ success_files' = LoopStart.success_files
    /\ failed_files' = LoopStart.failed_files
    /\ log' = log \o LoopStart.log
    /\ pc' = "loop"
    /\ UNCHANGED <<parseVars, stageVars, df, walkVars, outVars, pdf_files, folder, artifacts,
                   error>>

\* the files the loop has been through
done == Len(success_files) + Len(failed_files)

\* one iteration of the per-file loop
ProcessFile ==
    /\ pc = "loop"
    /\ done < Len(pdf_files)
    /\ LET r == ProcessOne([extracted_data |-> table, success_files |-> success_files,
                            failed_files |-> failed_files, log |-> log],
                           pdf_files[done + 1])
       IN  /\ table' = r.extracted_data
           /\ success_files' = r.success_files
           /\ failed_files' = r.failed_files
           /\ log' = r.log
    /\ UNCHANGED <<parseVars, stageVars, pc, df, walkVars, outVars, pdf_files, folder, artifacts,
                   error>>

\* the loop has ended: df = pd.DataFrame(extracted_data)
BuildTable ==
    /\ pc = "loop"
    /\ done = Len(pdf_files)
    /\ pc' = "extracted"
    /\ UNCHANGED <<parseVars, stageVars, table, df, walkVars, outVars, loopVars, diskVars>>

\* a table built from no record has no Date column: df[date_col] raises
NoColumnError ==
    /\ pc = "extracted"
    /\ table = <<>>
    /\ pc' = "raised"
    /\ error' = "KeyError: Date"
    /\ UNCHANGED <<parseVars, stageVars, table, df, walkVars, outVars, loopVars, folder, log, artifacts>>

\* assign_rotations, steps 1 to 4: copy, parse, sort, Status, filter, counters
StartRotations ==
    /\ pc = "extracted"
    /\ table # <<>>
    /\ ~PrepareRaises(table)
    /\ df' = Prepare(table)
    /\ valid_indices' = ValidIndices(df')
    /\ SetWalk(WalkInit(Len(valid_indices')))
    /\ pc' = "walk"
    /\ UNCHANGED <<parseVars, stageVars, table, outVars, loopVars, diskVars>>

\* pd.to_datetime raises on a Date that does not match the format
DateError ==
    /\ pc = "extracted"
    /\ PrepareRaises(table)
    /\ pc' = "raised"
    /\ error' = "time data does not match format"
    /\ UNCHANGED <<parseVars, stageVars, table, df, walkVars, outVars, loopVars, folder, log, artifacts>>

\* one iteration of the outer while loop
WalkRotation ==
    /\ pc = "walk"
    /\ i <= n
    /\ SetWalk(OuterIteration(valid, walk))
    /\ UNCHANGED <<parseVars, stageVars, table, pc, df, valid_indices, outVars, loopVars, diskVars>>

\* the loop has ended: step 6 and the return
FinishRotations ==
    /\ pc = "walk"
    /\ ~(i <= n)
    /\ df' = MapBack(df, valid_indices, rotations)
    /\ pc' = "assigned"
    /\ UNCHANGED <<parseVars, stageVars, table, walkVars, outVars, loopVars, diskVars>>

\* process_pdf_folder: the extended sheet
WriteExtended ==
    /\ pc = "assigned"
    /\ df' = Extended(df)
    /\ xlsx' = df'
    /\ artifacts' = artifacts \cup {ExtendedSheet}
    /\ pc' = "extended"
    /\ UNCHANGED <<parseVars, stageVars, table, walkVars, df_combined, duplicates, not_flown_df,
                   loopVars, folder, log, error>>

\* process_pdf_folder: the combined sheet
WriteCombined ==
    /\ pc = "extended"
    /\ df_combined' = Combined(df)
    /\ artifacts' = artifacts \cup {CombinedSheet}
    /\ pc' = "combined"
    /\ UNCHANGED <<parseVars, stageVars, table, df, walkVars, xlsx, duplicates, not_flown_df,
                   loopVars, folder, log, error>>

\* to_excel or the append to the local log raises: the run ends where it is
WriteError ==
    /\ pc \in {"assigned", "extended", "combined"}
    /\ pc' = "raised"
    /\ error' = "write failed"
    /\ UNCHANGED <<parseVars, stageVars, table, df, walkVars, outVars, loopVars, folder, log, artifacts>>

\* the summary block is appended to the local log
WriteSummary ==
    /\ pc = "combined"
    /\ log' = Append(log, SummaryMessage(success_files, failed_files))
    /\ pc' = "summarised"
    /\ UNCHANGED <<parseVars, stageVars, table, df, walkVars, outVars, loopVars, folder, artifacts, error>>

MoveFolderBeforeSummary ==
    /\ pc = "combined"
    /\ Len(processed) < 2
    /\ processed' = Append(processed, run)
    /\ folder' = "Processed"
    /\ pc' = "moved"
    /\ UNCHANGED <<parseVars, to_be_processed, mapping_file, run, table, df, walkVars,
                   outVars, loopVars, log, artifacts, error>>

\* shutil.move of the folder to Processed, and the return: the folder becomes
\* Processed/<date folder>, or goes inside that folder when it is there already
MoveFolder ==
    /\ pc = "summarised"
    /\ Len(processed) < 2
    /\ processed' = Append(processed, run)
    /\ folder' = "Processed"
    /\ pc' = "moved"
    /\ UNCHANGED <<parseVars, to_be_processed, mapping_file, run, table, df, walkVars,
                   outVars, loopVars, log, artifacts, error>>

\* shutil.move raises when Processed/<date folder> holds a folder of that name already
MoveError ==
    /\ pc = "summarised"
    /\ Len(processed) >= 2
    /\ pc' = "raised"
    /\ error' = "Destination path already exists"
    /\ UNCHANGED <<parseVars, stageVars, table, df, walkVars, outVars, loopVars, folder, log,
                   artifacts>>

\* extract_duplicates_from_file on the sheet in the folder
ExtractDuplicates ==
    /\ pc \in {"moved", "sheet"}
    /\ LET r == ModeA(xlsx)
       IN  /\ duplicates' = r.duplicates
           /\ not_flown_df' = r.not_flown_df
    /\ pc' = IF pc = "sheet" THEN "sheet_flagged" ELSE "flagged"
    /\ UNCHANGED <<parseVars, stageVars, table, df, walkVars, xlsx, df_combined, loopVars, diskVars>>

Next ==
    \/ ParseFields
    \/ \E reg_no \in Registrations : MoveFile(reg_no)
    \/ CallProcessPdfFolder
    \/ AbortBatch
    \/ StartProcessing
    \/ ProcessFile
    \/ BuildTable
    \/ NoColumnError
    \/ StartRotations
    \/ DateError
    \/ WalkRotation
    \/ FinishRotations
    \/ WriteExtended
    \/ WriteCombined
    \/ WriteError
    \/ WriteSummary
    \/ MoveFolder
    \/ MoveError
    \/ ExtractDuplicates

Spec == Init /\ [][Next]_vars

----------------------------------------------------------------------------
(* Rotation claims *)

\* the table assign_rotations returns, seen from a state of the walk
FinalDf == MapBack(df, valid_indices, WalkFrom(valid, walk).rotations)

\* the Rotation that the p-th leg of valid has in the returned table
FinalRotation(p) == FinalDf[valid_indices[p]].Rotation

\* the legs s..k chain, each departing from the arrival airport of the one before
Chained(s, k) == \A m \in (s + 1)..k : valid[m].Dep = valid[m - 1].Arr

\* the legs s..k are a chain of two or more legs, and k is the first to arrive at the
\* departure airport of s
ClosesAt(s, k) ==
    /\ s < k /\ k <= n
    /\ Chained(s, k)
    /\ valid[k].Arr = valid[s].Dep
    /\ \A m \in (s + 1)..(k - 1) : valid[m].Arr # valid[s].Dep

\* the legs s..k are a chain that has not arrived back at the departure airport of s,
\* and the leg after k does not depart from where k arrived
BreaksAfter(s, k) ==
    /\ s <= k /\ k < n
    /\ Chained(s, k)
    /\ \A m \in s..k : valid[m].Arr # valid[s].Dep
    /\ valid[k + 1].Dep # valid[k].Arr

\* the walk has just finished the rotation it started at leg s
RotationDoneFrom(s) ==
    pc = "walk" /\ loop_positions # <<>> /\ loop_positions[1] = s

\* C1: Rotation closure.  When the walk starts a rotation at a leg and the legs from
\* there chain until one arrives back at that leg's departure airport, every leg of
\* the chain gets the same rotation r in the returned table, no later leg gets r, and
\* the leg after the closing one gets r + 1.
C1_RotationClosure ==
    \A s \in 1..n : \A k \in 1..n :
        (RotationDoneFrom(s) /\ ClosesAt(s, k)) =>
            /\ \A p \in s..k : FinalRotation(p) = current_rot
            /\ \A p \in (k + 1)..n : FinalRotation(p) # current_rot
            /\ k < n => FinalRotation(k + 1) = current_rot + 1

C1_Witness ==
    \E s \in 1..n : \E k \in 1..n :
        /\ RotationDoneFrom(s) /\ ClosesAt(s, k) /\ k < n
        /\ valid[k + 1].Dep # valid[k].Arr

\* C2: Rotation break.  When the chain of the rotation started at a leg is not closed
\* and the next leg does not depart from its last arrival airport, the rotation r ends
\* there, that next leg gets r + 1 (it is not skipped and not left at 0), and no later
\* leg gets r.
C2_RotationBreak ==
    \A s \in 1..n : \A k \in 1..n :
        (RotationDoneFrom(s) /\ BreaksAfter(s, k)) =>
            /\ \A p \in s..k : FinalRotation(p) = current_rot
            /\ FinalRotation(k + 1) = current_rot + 1
            /\ \A p \in (k + 1)..n : FinalRotation(p) # current_rot

C2_Witness ==
    \E s \in 1..n : \E k \in 1..n :
        /\ RotationDoneFrom(s) /\ BreaksAfter(s, k)
        /\ \E p \in (k + 2)..n : valid[p].Dep = valid[k].Arr

\* C3: no two records with different Registration values have the same nonzero
\* Rotation in the returned table.
C3_OneRegistrationPerRotation ==
    pc = "assigned" =>
        \A a \in DOMAIN df : \A b \in DOMAIN df :
            df[a].Registration # df[b].Registration =>
                ~(df[a].Rotation = df[b].Rotation /\ df[a].Rotation # 0)

\* C4: every record of the returned table with Dep == Arr has Rotation = 0.
C4_CancelledRouteKeepsZero ==
    pc = "assigned" =>
        \A k \in DOMAIN df : PyEq(df[k].Dep, df[k].Arr) => df[k].Rotation = 0

RemoveAt(t, k) == SubSeq(t, 1, k - 1) \o SubSeq(t, k + 1, Len(t))

RotationOfFile(d, fn) == d[CHOOSE k \in DOMAIN d : d[k].filename = fn].Rotation

\* C5: removing a record with Dep == Arr from the input table leaves the Rotation of
\* every other record as it is.
C5_CancelledRouteNeverChains ==
    pc = "assigned" =>
        \A k \in DOMAIN table :
            (Len(table) > 1 /\ PyEq(table[k].Dep, table[k].Arr)) =>
                LET without == assign_rotations(RemoveAt(table, k))
                IN  \A m \in DOMAIN table \ {k} :
                        RotationOfFile(df, table[m].filename)
                            = RotationOfFile(without, table[m].filename)

\* the text is a time of day HH:MM
IsClockTime(x) ==
    /\ ~isna(x) /\ Len(x) = 5 /\ x[3] = ":"
    /\ \A k \in {1, 2, 4, 5} : IsDigit(x[k])
    /\ 10 * DigitVal(x[1]) + DigitVal(x[2]) <= 23
    /\ 10 * DigitVal(x[4]) + DigitVal(x[5]) <= 59

\* the placeholder that orders a record without a usable off-blocks time
NoTime == 24 * 60

\* minutes since midnight of the off-blocks time of an extracted record
TimeKey(r) ==
    IF IsClockTime(r.ATD)
    THEN 60 * (10 * DigitVal(r.ATD[1]) + DigitVal(r.ATD[2]))
            + 10 * DigitVal(r.ATD[4]) + DigitVal(r.ATD[5])
    ELSE NoTime

\* the day of an extracted record as one number; a record without a Date comes last
DayKey(r) ==
    IF isna(r.Date) THEN 99999999
    ELSE LET d == DateValue(r.Date) IN 10000 * d[1] + 100 * d[2] + d[3]

\* extracted record a comes before b by (Registration, Date, ATD)
KeyBefore(a, b) ==
    \/ StrLess(a.Registration, b.Registration)
    \/ a.Registration = b.Registration /\ DayKey(a) < DayKey(b)
    \/ a.Registration = b.Registration /\ DayKey(a) = DayKey(b) /\ TimeKey(a) < TimeKey(b)

\* the position in the extracted table of the record that row r of df comes from
InputPos(r) == CHOOSE k \in DOMAIN table : table[k].filename = r.filename

\* the sort step has just handed its table to the walk
Sorted == pc = "walk" /\ loop_positions = <<>>

\* C18: sort order used for rotation.  The table that the walk reads holds every
\* extracted record once, in ascending order of (Registration, Date, ATD); records with
\* equal keys are in their input order; a record whose ATD is blank or not a time is
\* ordered by one fixed placeholder, and the only error of the sort step is a Date that
\* is not a date.
C18_SortOrder ==
    /\ Sorted =>
          LET from == [p \in DOMAIN df |-> InputPos(df[p])]
          IN  /\ Len(df) = Len(table)
              /\ {from[p] : p \in DOMAIN df} = DOMAIN table
              /\ \A p \in DOMAIN df : \A q \in DOMAIN df :
                    p < q =>
                        /\ ~KeyBefore(table[from[q]], table[from[p]])
                        /\ ~KeyBefore(table[from[p]], table[from[q]]) => from[p] < from[q]
    /\ (pc = "raised" /\ error = "time data does not match format") =>
          \E k \in DOMAIN table : DateRaises(table[k].Date)

C18_Witness ==
    /\ Sorted
    /\ Len(table) = 3
    /\ table[1].ATD = None /\ table[2].ATD = T2500 /\ table[3].ATD = T0900
    /\ df[1].filename = FileName(3)
    /\ df[2].filename = FileName(1)
    /\ df[3].filename = FileName(2)

\* the p-th smallest position of the set K
NthOf(K, p) == CHOOSE k \in K : Cardinality({m \in K : m < k}) = p - 1

\* C19: every chainable leg is numbered.  In the returned table every record with
\* Dep != Arr has Rotation >= 1, so that Rotation = 0 is found only on records that the
\* filter excludes, those with Dep == Arr, both missing included.
C19_EveryChainableLegNumbered ==
    pc = "assigned" =>
        \A k \in DOMAIN df : ~PyEq(df[k].Dep, df[k].Arr) => df[k].Rotation >= 1

\* the positions of the returned table, which is sorted, whose record has Dep != Arr
ChainableLegs == {k \in DOMAIN df : ~PyEq(df[k].Dep, df[k].Arr)}

\* C20: one monotonically increasing counter.  Along the sorted legs with Dep != Arr
\* Rotation starts at 1 and each value is that of the leg before or one more, so the
\* nonzero Rotation values of the table are 1..K without gaps.
C20_RotationCounterMonotone ==
    pc = "assigned" =>
        LET legs == ChainableLegs
            m    == Cardinality(legs)
            K    == Cardinality({df[k].Rotation : k \in DOMAIN df} \ {0})
        IN  /\ m > 0 => df[NthOf(legs, 1)].Rotation = 1
            /\ \A p \in 1..(m - 1) :
                  LET r == df[NthOf(legs, p)].Rotation
                  IN  df[NthOf(legs, p + 1)].Rotation \in {r, r + 1}
            /\ {df[k].Rotation : k \in DOMAIN df} \ {0} = 1..K

----------------------------------------------------------------------------
(* Status and dedup claims *)

\* a cell that is missing, empty, or made of spaces only
IsBlankCell(x) == isna(x) \/ \A k \in DOMAIN x : x[k] = " "

\* C6: Status is "Not Flown" exactly when TO and LDG are both blank, whatever Dep and
\* Arr are; otherwise it is "Cancelled" when Dep == Arr and "Completed" when not; no
\* other Status is produced.
C6_StatusClassification ==
    pc = "assigned" =>
        \A k \in DOMAIN df :
            LET r == df[k]
                neverFlew == IsBlankCell(r.TO) /\ IsBlankCell(r.LDG)
            IN  /\ r.Status = NotFlown <=> neverFlew
                /\ (~neverFlew /\ r.Dep = r.Arr) => r.Status = Cancelled
                /\ (~neverFlew /\ r.Dep # r.Arr) => r.Status = Completed
                /\ r.Status \in {NotFlown, Cancelled, Completed}

C6_Witness ==
    /\ pc = "assigned"
    /\ \E k \in DOMAIN df :
          /\ df[k].TO = <<" ">> /\ df[k].LDG = None
          /\ df[k].Dep = df[k].Arr
          /\ df[k].Status = NotFlown

\* the text without its leading and trailing spaces
Trimmed(x) ==
    IF isna(x) THEN x
    ELSE LET ink == {k \in DOMAIN x : x[k] # " "}
         IN  IF ink = {} THEN <<>>
             ELSE SubSeq(x, CHOOSE k \in ink : \A m \in ink : k <= m,
                            CHOOSE k \in ink : \A m \in ink : m <= k)

\* the composite key of a row of the written tables, compared without padding
TrimmedKey(r) == <<Trimmed(r.EnquiryNo), Trimmed(r.Date), Trimmed(r.FlightNumber)>>

\* row c is row r without its filename column, nothing else changed
SameButFilename(c, r) ==
    /\ DOMAIN c = DOMAIN r \ {"filename"}
    /\ \A f \in DOMAIN c : c[f] = r[f]

\* the rows of the extended table that are flown and whose key no other flown row has
UniqueFlown ==
    {k \in DOMAIN df :
        /\ df[k].Status # NotFlown
        /\ \A m \in DOMAIN df \ {k} :
              df[m].Status # NotFlown => TrimmedKey(df[m]) # TrimmedKey(df[k])}

\* C7: the combined table is exactly the rows of the extended table whose Status is not
\* "Not Flown" and whose key occurs once among the rows that are not "Not Flown", in
\* their order and unaltered (the combined sheet has no filename column); so every copy
\* of a repeated key is dropped and no two rows of the result share a key.
C7_ModeBKeepsUniqueFlownRows ==
    pc = "combined" =>
      LET kept == UniqueFlown
      IN
        /\ Len(df_combined) = Cardinality(kept)
        /\ \A p \in DOMAIN df_combined :
              SameButFilename(df_combined[p], df[NthOf(kept, p)])
        /\ \A p \in DOMAIN df_combined : \A q \in DOMAIN df_combined :
              p # q => TrimmedKey(df_combined[p]) # TrimmedKey(df_combined[q])

C7_Witness ==
    /\ pc = "combined"
    /\ Len(df) = 3 /\ Len(df_combined) = 1
    /\ \E a \in DOMAIN df : \E b \in DOMAIN df :
          /\ a # b
          /\ df[a].Status # NotFlown /\ df[b].Status # NotFlown
          /\ df[a].FlightNumber # df[b].FlightNumber
          /\ TrimmedKey(df[a]) = TrimmedKey(df[b])

\* C8: Mode B applied to the rows it has kept removes no row.
C8_ModeBIdempotent ==
    pc = "combined" => ModeB(df_combined) = df_combined

\* a kept row whose key a "Not Flown" row also carries
C8_Witness ==
    /\ pc = "combined"
    /\ Len(df) = 3 /\ Len(df_combined) = 2
    /\ \E a \in DOMAIN df : \E b \in DOMAIN df :
          /\ df[a].Status = NotFlown /\ df[b].Status # NotFlown
          /\ TrimmedKey(df[a]) = TrimmedKey(df[b])
          /\ \E p \in DOMAIN df_combined : SameButFilename(df_combined[p], df[b])

\* two texts are equal up to the case of their letters
EqIgnoreCase(a, b) ==
    /\ Len(a) = Len(b)
    /\ \A k \in DOMAIN a :
          \/ a[k] = b[k]
          \/ \E c \in DOMAIN Upper : {a[k], b[k]} = {Upper[c], Lower[c]}

\* the Status cell reads "not flown" once trimmed and compared without case
ReadsNotFlown(x) == ~isna(x) /\ EqIgnoreCase(Trimmed(x), NotFlown)

\* rows a and b of the sheet carry the same EnquiryNo, FlightNumber and calendar date
SameSheetKey(a, b) ==
    /\ xlsx[a].EnquiryNo = xlsx[b].EnquiryNo
    /\ xlsx[a].FlightNumber = xlsx[b].FlightNumber
    /\ to_datetime_coerce(xlsx[a].Date) = to_datetime_coerce(xlsx[b].Date)

SheetNotFlown == {k \in DOMAIN xlsx : ReadsNotFlown(xlsx[k].Status)}

\* the rows that are not "Not Flown" and share their key with another such row
SheetRepeated ==
    {k \in DOMAIN xlsx \ SheetNotFlown :
        \E m \in DOMAIN xlsx \ SheetNotFlown : m # k /\ SameSheetKey(k, m)}

Flagged == pc \in {"flagged", "sheet_flagged"}

\* C9: the Not_flown table is the rows of the sheet whose trimmed, case-insensitive
\* Status is "not flown"; the Duplicates table is, among the other rows, exactly the
\* rows that share their (EnquiryNo, Date, FlightNumber) key with another of them, each
\* with the reason attached; a "Not Flown" row is never in Duplicates and never makes
\* another row a duplicate.
C9_ModeAFlagsEveryCopy ==
    Flagged =>
        LET nf  == SheetNotFlown
            rep == SheetRepeated
        IN  /\ Len(not_flown_df) = Cardinality(nf)
            /\ \A p \in DOMAIN not_flown_df : not_flown_df[p] = xlsx[NthOf(nf, p)]
            /\ Len(duplicates) = Cardinality(rep)
            /\ \A p \in DOMAIN duplicates :
                  LET r == xlsx[NthOf(rep, p)]
                  IN  /\ \A f \in DOMAIN r : duplicates[p][f] = r[f]
                      /\ duplicates[p].AIReason = AIReason
            /\ \A p \in DOMAIN duplicates : ~ReadsNotFlown(duplicates[p].Status)

C9_Witness ==
    /\ Flagged
    /\ Len(duplicates) = 2
    /\ duplicates[1].Date # duplicates[2].Date
    /\ \E p \in DOMAIN not_flown_df :
          /\ not_flown_df[p].Status # NotFlown
          /\ not_flown_df[p].FlightNumber = duplicates[1].FlightNumber

\* C10: two rows that are not "Not Flown" and whose keys differ only by leading or
\* trailing spaces of EnquiryNo or FlightNumber are duplicates of each other in both
\* modes: Mode B keeps neither and Mode A puts both in Duplicates.
C10_KeysIgnorePadding ==
    pc = "flagged" =>
        \A a \in DOMAIN xlsx : \A b \in DOMAIN xlsx :
            ( /\ a # b
              /\ xlsx[a].Status # NotFlown /\ xlsx[b].Status # NotFlown
              /\ TrimmedKey(xlsx[a]) = TrimmedKey(xlsx[b]) ) =>
                /\ \A p \in DOMAIN df_combined :
                      TrimmedKey(df_combined[p]) # TrimmedKey(xlsx[a])
                /\ \E p \in DOMAIN duplicates :
                      duplicates[p].filename = xlsx[a].filename

----------------------------------------------------------------------------
(* Batch claims *)

\* a run of process_pdf_folder, not a sheet or a text handed to one of the helpers
BatchRun == pc \notin {"sheet", "sheet_flagged", "matched", "parsed", "staging"}

\* the date folder existed with PDF files in it when the run started
FolderHasPdfs == folder # "missing" /\ pdf_files # <<>>

\* the per-file loop has ended
LoopEnded == BatchRun /\ pc \notin {"start", "loop"} /\ FolderHasPdfs

NameOf(f) == f.name

IsUnreadable(f) == ~f.readable

IsReadable(f) == f.readable

\* the names of the files of the folder that cannot be read, in folder order
UnreadableNames ==
    LET fs == SelectSeq(pdf_files, IsUnreadable) IN [k \in DOMAIN fs |-> NameOf(fs[k])]

\* the names of the files of the folder that can be read, in folder order
ReadableNames ==
    LET fs == SelectSeq(pdf_files, IsReadable) IN [k \in DOMAIN fs |-> NameOf(fs[k])]

\* C11: per-file failures never abort the batch.  Over a folder with PDF files, every
\* file whose extraction raises is in failed_files once the loop has ended, and the run
\* is not ended by an exception that the failed files cause: it ends raised only when a
\* Date of an extracted record is not a date, a write fails or the folder cannot be
\* relocated.
C11_PerFileFailuresNeverAbort ==
    /\ LoopEnded => failed_files = UnreadableNames
    /\ (pc = "raised" /\ FolderHasPdfs) =>
          error \in {"time data does not match format", "write failed",
                     "Destination path already exists"}

\* C12: batch-fatal conditions abort before any output.  When the processing folder
\* does not exist or holds no PDF file, the run does nothing but raise: no log line and
\* no table is written, and the folder is not relocated or changed.
C12_BatchFatalAbortsBeforeOutput ==
    (BatchRun /\ (folder = "missing" \/ pdf_files = <<>>)) =>
        /\ pc \in {"start", "raised"}
        /\ pc = "raised" =>
              error \in {"No such processing folder", "No PDF files found in folder"}
        /\ log = <<>>
        /\ artifacts = {} /\ xlsx = <<>> /\ df_combined = <<>>
        /\ folder # "Processed"

C12_Witness ==
    /\ pc = "raised"
    /\ folder = "Processing" /\ pdf_files = <<>>
    /\ error = "No PDF files found in folder"

\* the summary block is the last thing in the local log
SummaryLogged == log # <<>> /\ log[Len(log)][1] = "Summary"

\* C13: folder relocation is the last step.  The folder is in Processed only when the
\* extended sheet, the combined sheet and the summary block have all been written, and
\* a run that raised, in the rotation step or in one of the writes, has left the folder
\* where it was, with no Processed entry.
C13_RelocationIsLast ==
    /\ folder = "Processed" =>
          /\ {ExtendedSheet, CombinedSheet} \subseteq artifacts
          /\ SummaryLogged
          /\ error = "none"
    /\ pc = "raised" => folder # "Processed"

C13_Witness ==
    /\ folder = "Processed"
    /\ failed_files # <<>>
    /\ SummaryLogged

----------------------------------------------------------------------------
(* Field normalisation claims *)

\* the raw code is a key of the exact table, compared without case
ExactEntries(x) ==
    {e \in DOMAIN code_map_1 : Truthy(x) /\ EqIgnoreCase(x, code_map_1[e][1])}

\* the entries of the prefix table whose key the raw code starts with, without case
PrefixEntries(x) ==
    {e \in DOMAIN code_map_2 :
        LET key == code_map_2[e][1]
        IN  Truthy(x) /\ Len(key) <= Len(x) /\ EqIgnoreCase(SubSeq(x, 1, Len(key)), key)}

\* C15: carrier code precedence.  A raw flight code that is, compared without case, a
\* key of the exact table is replaced by the exact table's value, also when keys of the
\* prefix table match the start of the code.
C15_ExactTableFirst ==
    pc = "parsed" =>
        \A e \in ExactEntries(fields.FlightNumber) :
            data.FlightNumber = code_map_1[e][2]

C15_Witness ==
    /\ pc = "parsed"
    /\ fields.FlightNumber = <<"a", "B", "1">>
    /\ Cardinality(PrefixEntries(fields.FlightNumber)) = 2
    /\ data.FlightNumber = <<"X", "Y", "9">>

\* C16: prefix fallback.  When no key of the exact table matches, the longest key of
\* the prefix table that the code starts with is replaced by its value and the rest of
\* the code is kept as it was; when no prefix key matches, or the code is empty or
\* missing, the code is returned unchanged.
C16_PrefixFallback ==
    pc = "parsed" =>
        LET x  == fields.FlightNumber
            ms == PrefixEntries(x)
        IN  /\ ~Truthy(x) => data.FlightNumber = x
            /\ (Truthy(x) /\ ExactEntries(x) = {} /\ ms = {}) => data.FlightNumber = x
            /\ (Truthy(x) /\ ExactEntries(x) = {} /\ ms # {}) =>
                  LET e == CHOOSE e \in ms :
                              \A m \in ms : Len(code_map_2[m][1]) <= Len(code_map_2[e][1])
                  IN  data.FlightNumber =
                        code_map_2[e][2] \o SubSeq(x, Len(code_map_2[e][1]) + 1, Len(x))

C16_Witness ==
    /\ pc = "parsed"
    /\ fields.FlightNumber = <<"a", "b", "b">>
    /\ data.FlightNumber = <<"X", "Y", "b">>

\* the part of the text before its first "/", the whole text when it has none
BeforeSlash(x) ==
    LET at == {k \in DOMAIN x : x[k] = "/"}
    IN  IF at = {} THEN x
        ELSE SubSeq(x, 1, (CHOOSE k \in at : \A m \in at : k <= m) - 1)

C30_UnknownCodeReturnedAsGiven ==
    pc = "parsed" =>
        LET dc  == fields.DelayCode
            key == BeforeSlash(Trimmed(dc))
            es  == {e \in DOMAIN delay_codes : delay_codes[e][1] = key}
        IN  (~isna(dc) /\ dc # <<>>) =>
                /\ es # {} => \A e \in es : data.DelayReason = delay_codes[e][2]
                /\ es = {} => data.DelayReason = dc

----------------------------------------------------------------------------
(* The walk as a loop *)

\* C29: termination of the rotation walk.  Every iteration of the outer loop starts a
\* new rotation at position i, chains the consecutive positions after it (j moves by
\* one per chained leg and stops on the leg that closes the loop), takes only legs
\* that are in no rotation yet, and resumes at least one position further and at most
\* one past the last leg; the number of iterations never exceeds n, the number of legs
\* that pass the filter Dep != Arr.
C29_WalkTerminates ==
    [][(pc = "walk" /\ pc' = "walk") =>
          LET m == Len(loop_positions')
          IN  /\ m >= 1
              /\ loop_positions' = [k \in 1..m |-> i + k - 1]
              /\ j' \in {i + m - 1, i + m}
              /\ j' = i + m - 1 => PyEq(last_arr', start_dep')
              /\ \A p \in 1..m : rotations[loop_positions'[p]] = 0
              /\ \A p \in DOMAIN rotations :
                    rotations'[p] = IF i <= p /\ p < i + m
                                    THEN global_rotation' ELSE rotations[p]
              /\ i' >= i + 1
              /\ i' >= i + m
              /\ i' <= n + 1
              /\ global_rotation' = global_rotation + 1
              /\ global_rotation' <= n]_vars

\* a walk of two iterations has ended, and its first rotation chained two legs
C29_Witness ==
    /\ pc = "walk"
    /\ i > n
    /\ global_rotation = 2
    /\ \E p \in DOMAIN rotations : p >= 2 /\ rotations[p] = 1 /\ rotations[p - 1] = 1

----------------------------------------------------------------------------
(* assign_rotations as a function of the table *)

\* the fields of a record that the extraction fills and assign_rotations does not compute
ExtractedFields ==
    {"filename", "EnquiryNo", "FlightNumber", "Registration", "Dep", "Arr", "ATD",
     "TO", "LDG", "DelayCode", "DelayDuration", "DelayReason"}

\* row d of the returned table carries the day that the text of record r names
SameDay(d, r) ==
    IF isna(r.Date) THEN isna(d.Date)
    ELSE ~isna(d.Date) /\ 10000 * d.Date[1] + 100 * d.Date[2] + d.Date[3] = DayKey(r)

\* C25: assign_rotations is a pure function of the full table.  The caller's table is
\* not modified, and the returned table holds every input record exactly once, none
\* added, with its extracted fields (Dep, Arr, Registration and the others) unchanged,
\* its Date naming the same day, and a Rotation number.
C25_RecordsReturnedUnchanged ==
    /\ [](pc = "assigned" =>
            /\ Len(df) = Len(table)
            /\ \A k \in DOMAIN table :
                  Cardinality({p \in DOMAIN df : df[p].filename = table[k].filename}) = 1
            /\ \A p \in DOMAIN df :
                  /\ \E k \in DOMAIN table : table[k].filename = df[p].filename
                  /\ \A f \in ExtractedFields : df[p][f] = table[InputPos(df[p])][f]
                  /\ SameDay(df[p], table[InputPos(df[p])])
                  /\ df[p].Rotation \in Nat)
    /\ [][(pc \in {"extracted", "walk"}) => (table' = table)]_vars

\* the orders in which a directory listing can deliver m files
Orders(m) == {f \in [1..m -> 1..m] : \A a, b \in 1..m : f[a] = f[b] => a = b}

\* table t with its rows in the order f
Permuted(t, f) == [k \in DOMAIN t |-> t[f[k]]]

\* no two records of t share their (Registration, Date, ATD) sort key
DistinctSortKeys(t) ==
    \A a, b \in DOMAIN t : a # b => KeyBefore(t[a], t[b]) \/ KeyBefore(t[b], t[a])

\* C26: determinism under input order.  When the (Registration, Date, ATD) sort keys of
\* the extracted records are all distinct, every order of the input rows gives every
\* record the same Rotation.  (The column conversions act on each row by itself, so
\* the rows of the permuted table are converted once, before they are permuted.)
C26_RotationIndependentOfInputOrder ==
    (pc = "assigned" /\ DistinctSortKeys(table)) =>
        \A parsed \in {ParseColumns(table)} :
            \A f \in Orders(Len(table)) :
                \A other \in {WalkTable(SortAndClassify(Permuted(parsed, f)))} :
                    /\ Len(other) = Len(df)
                    /\ \A k \in DOMAIN df :
                          \E p \in DOMAIN other : /\ other[p].filename = df[k].filename
                                                  /\ other[p].Rotation = df[k].Rotation

\* three records with distinct keys were extracted in an order that is not the sorted
\* one, and two of them share a rotation
C26_Witness ==
    /\ pc = "assigned"
    /\ Len(table) = 3
    /\ DistinctSortKeys(table)
    /\ df[1].filename # table[1].filename
    /\ \E a, b \in DOMAIN df : a # b /\ df[a].Rotation = 1 /\ df[b].Rotation = 1

----------------------------------------------------------------------------
(* The two dedup modes on one table *)

\* the rows of the sheet that Mode A puts in neither side table
KeptByModeA ==
    {k \in DOMAIN xlsx :
        /\ \A p \in DOMAIN duplicates : duplicates[p].filename # xlsx[k].filename
        /\ \A p \in DOMAIN not_flown_df : not_flown_df[p].filename # xlsx[k].filename}

\* C23: the two dedup modes agree.  On the same extended table, the rows that Mode B
\* keeps (Not Flown removed, then every copy of a repeated key dropped) are exactly the
\* rows that Mode A puts in neither the Not_flown nor the Duplicates table, in their
\* order; the combined sheet of a batch is those rows without their filename.
C23_DedupModesAgree ==
    Flagged =>
        LET keptB == ModeB(xlsx)
            keptA == KeptByModeA
        IN  /\ Len(keptB) = Cardinality(keptA)
            /\ \A p \in DOMAIN keptB : keptB[p] = xlsx[NthOf(keptA, p)]
            /\ pc = "flagged" =>
                  /\ Len(df_combined) = Cardinality(keptA)
                  /\ \A p \in DOMAIN df_combined :
                        SameButFilename(df_combined[p], xlsx[NthOf(keptA, p)])

----------------------------------------------------------------------------
(* Rotation and the flown state of a leg *)

\* table t with every take-off and landing time set to x
WithTimes(t, x) == [k \in DOMAIN t |-> [t[k] EXCEPT !.TO = x, !.LDG = x]]

\* C24: rotation assignment does not read TO, LDG or Status.  The table with every
\* TO and LDG replaced by one time, and by no time, gives every record the Rotation of
\* this run (so two tables that differ only in TO and LDG get the same Rotations); a
\* "Not Flown" record whose Dep and Arr differ has a Rotation of at least 1; and the
\* rows of the combined table carry the Rotation computed on the full table.
C24_RotationIgnoresFlownState ==
    /\ pc = "assigned" =>
          /\ \A x \in {T1000, None} :
                \A other \in {assign_rotations(WithTimes(table, x))} :
                    \A k \in DOMAIN df :
                        \E p \in DOMAIN other : /\ other[p].filename = df[k].filename
                                                /\ other[p].Rotation = df[k].Rotation
          /\ \A k \in DOMAIN df :
                (df[k].Status = NotFlown /\ df[k].Dep # df[k].Arr) => df[k].Rotation >= 1
    /\ pc = "combined" =>
          \A p \in DOMAIN df_combined :
              \E k \in DOMAIN df : /\ SameButFilename(df_combined[p], df[k])
                                   /\ df_combined[p].Rotation = df[k].Rotation

----------------------------------------------------------------------------
(* Staging, the mapping file and repeated runs *)

\* the run whose folder is Processed/<date folder>, the dest_path that
\* process_pdf_folder returns; its combined_data.xlsx is the returned excel_dest_path
ReturnedRun == processed[1]

\* C21: the paths a run returns name its own results.  When process_pdf_folder has
\* returned, the folder at dest_path and the combined table at excel_dest_path are the
\* ones this run produced, and the run's folder is no longer in Processing; also for a
\* run whose date folder has the name of an earlier run's.
C21_ReturnNamesOwnRun ==
    pc \in {"moved", "flagged"} =>
        /\ folder # "Processing"
        /\ processed # <<>>
        /\ ReturnedRun = run

\* the positions of the lines that move_file wrote for the file name
LinesOf(name) ==
    {k \in DOMAIN mapping_file :
        \E reg_no \in Registrations : mapping_file[k] = MappingLine(name, reg_no)}

\* registration reg_no staged the copy of the file that is in the folder: its line is
\* the last one written for the name
SuppliedBy(name, reg_no) ==
    \E k \in LinesOf(name) : /\ mapping_file[k] = MappingLine(name, reg_no)
                             /\ \A m \in LinesOf(name) : m <= k

\* C22: the EnquiryNo of a staged file is the registration that supplied its content.
\* After any stagings into the date folder, the record the loop builds for a file has
\* the registration of the last staging of that file name as its EnquiryNo: for a name
\* staged from R1 and then from R2 the folder holds R2's copy and the EnquiryNo is R2.
C22_EnquiryNoOfSuppliedContent ==
    pc = "extracted" =>
        \A k \in DOMAIN table : \A reg_no \in Registrations :
            SuppliedBy(table[k].filename, reg_no) => table[k].EnquiryNo = reg_no

\* the registrations that the mapping file has a line for under the file name
MappedTo(name) ==
    {reg_no \in Registrations :
        \E k \in DOMAIN mapping_file : mapping_file[k] = MappingLine(name, reg_no)}

\* the record that parse_fields built from the text of the folder's file of that name
ParsedRecordOf(name) ==
    pdf_files[CHOOSE p \in DOMAIN pdf_files : pdf_files[p].name = name].data

\* C28: EnquiryNo resolution.  The EnquiryNo of every record of the extracted table is
\* a registration that the folder's mapping file gives for the record's file name when
\* the mapping file has a line for the name, and the name of the folder that holds the
\* file when it has none.  In neither case is it read from the document: the record
\* of a document that names another registration gets the same EnquiryNo.
C28_EnquiryNoResolution ==
    (BatchRun /\ pc \notin {"start", "raised"}) =>
        \A k \in DOMAIN table :
            LET name == table[k].filename
            IN  /\ MappedTo(name) # {} => table[k].EnquiryNo \in MappedTo(name)
                /\ MappedTo(name) = {} =>
                      table[k].EnquiryNo = ParsedRecordOf(name).EnquiryNo
                /\ (MappedTo(name) = {} /\ mapping_file # <<>>) =>
                      table[k].EnquiryNo = TODAY_STR

\* a folder with a staged file and a file nobody staged has been read: the first has
\* the registration of its staging, the second the name of the date folder
C28_Witness ==
    /\ pc = "extracted"
    /\ Len(table) = 3
    /\ \E k \in DOMAIN table : table[k].EnquiryNo = TODAY_STR /\ MappedTo(table[k].filename) = {}
    /\ \E k \in DOMAIN table : /\ table[k].EnquiryNo = R1
                               /\ MappedTo(table[k].filename) = {R1}
                               /\ table[k].Registration = R1

----------------------------------------------------------------------------
(* The processing log *)

\* the line the loop writes for the file at position k of the folder
IsEventLineOf(line, k) ==
    IF pdf_files[k].readable
    THEN /\ Len(line) = 3
         /\ line[1] = "Processed"
         /\ line[2] = pdf_files[k].name
         /\ IF MappedTo(pdf_files[k].name) = {} THEN line[3] = None
            ELSE line[3] \in MappedTo(pdf_files[k].name)
    ELSE line = <<"Error reading", pdf_files[k].name>>

====
